---- MODULE Spec2Model ----
(***************************************************************************)
(* A model of the ask command-line client (src/ask.py): the streaming      *)
(* response parser of ChatSession.chat, the session store (save_session,   *)
(* load_session) and the command loop of interactive_mode.                 *)
(*                                                                         *)
(* Python strings are sequences of one-character strings, so that          *)
(* substring tests, split, strip, lower, re.sub and glob matching are      *)
(* computed character by character as the library computes them.           *)
(***************************************************************************)
EXTENDS Integers, Sequences, FiniteSets, TLC

VARIABLES
    \* ---- ChatSession.chat, streaming branch ----
    stream,            \* the lines of the HTTP response, in order
    pos,               \* index of the next line the for loop reads
    full_response,     \* local full_response
    thinking_content,  \* local thinking_content
    in_thinking,       \* local in_thinking
    total_tokens,      \* self.total_tokens
    returned,          \* what chat returned: NotYet, None, or the answer
    cpc,               \* position of chat: "reading", "returned", "failed"
    \* ---- interactive_mode and the history directory ----
    session,           \* the current ChatSession: [model, messages]
    model,             \* local variable model of interactive_mode
    system_prompt,     \* parameter system_prompt (None or a string)
    load_from,         \* local variable load_from (None or a name)
    dir,               \* HISTORY_DIR: file name -> [mtime, text]
    now,               \* wall clock in seconds (datetime.now())
    writes,            \* file-system modification clock (os.path.getmtime)
    pending,           \* user_input awaiting a continuation line
    ipc,               \* position of interactive_mode: "prompt", "cont", "exited"
    last               \* what is remembered of the last line or call handled

chatVars == <<stream, pos, full_response, thinking_content, in_thinking,
              total_tokens, returned, cpc>>
shellVars == <<session, model, system_prompt, load_from, dir, now, writes,
               pending, ipc, last>>
vars == <<chatVars, shellVars>>

\* ------------------------------------------------------------------------
\* Bounds of the model
\* ------------------------------------------------------------------------
MaxTokens == 5      \* tokens (a tag or one character) in a generated output
MaxCuts == 1        \* fragment boundaries put into a generated output
MaxLines == 3       \* response lines of a generated stream
MaxMsgs == 2        \* messages a session may hold before chats are cut off
MaxNow == 1         \* seconds the wall clock may advance
MaxSaves == 1       \* save commands of one interactive run
MaxWrites == 2      \* save_session calls on a history directory
MaxInput == 2       \* characters of a multi-line input that may still be continued
Preloaded == 49     \* sessions a used history directory already holds

\* ------------------------------------------------------------------------
\* Python str operations on character sequences
\* ------------------------------------------------------------------------
\* Python's None, and "no value yet": no sequence of characters is either.
None == <<"None">>
NotYet == <<"NotYet">>

StartsWith(s, p) == Len(s) >= Len(p) /\ SubSeq(s, 1, Len(p)) = p

\* pat in s
Contains(s, pat) ==
    \E i \in 1..(Len(s) - Len(pat) + 1) : SubSeq(s, i, i + Len(pat) - 1) = pat

\* s.find(pat) + 1, for a pat that occurs in s
Find(s, pat) ==
    CHOOSE i \in 1..(Len(s) - Len(pat) + 1) :
        /\ SubSeq(s, i, i + Len(pat) - 1) = pat
        /\ \A j \in 1..(i - 1) : SubSeq(s, j, j + Len(pat) - 1) # pat

\* s.split(sep): every piece between non-overlapping occurrences, left to right
RECURSIVE Split(_, _)
Split(s, sep) ==
    IF Contains(s, sep)
    THEN LET i == Find(s, sep)
         IN <<SubSeq(s, 1, i - 1)>> \o Split(SubSeq(s, i + Len(sep), Len(s)), sep)
    ELSE <<s>>

RECURSIVE Concat(_)
Concat(ss) == IF ss = <<>> THEN <<>> ELSE Head(ss) \o Concat(Tail(ss))

\* ------------------------------------------------------------------------
\* ChatSession.chat: the streaming parser
\* ------------------------------------------------------------------------
OPEN == <<"<", "t", "h", "i", "n", "k", ">">>
CLOSE == <<"<", "/", "t", "h", "i", "n", "k", ">">>

\* Lines 129-169 with the tag searches as written: the effect of one
\* message's content on (full_response, thinking_content, in_thinking).
HandleContent(st, content) ==
    LET hasOpen == Contains(content, OPEN)
        parts == Split(content, OPEN)
        pre_think == parts[1]
        post_think == parts[2]
        full1 == IF hasOpen THEN st.full_response \o pre_think ELSE st.full_response
        in1 == IF hasOpen THEN TRUE ELSE st.in_thinking
        content1 == IF hasOpen THEN post_think ELSE content
        hasClose == Contains(content1, CLOSE)
        parts2 == Split(content1, CLOSE)
        think_part == parts2[1]
        rest_part == IF Len(parts2) > 1 THEN parts2[2] ELSE <<>>
        think2 == IF hasClose THEN st.thinking_content \o think_part
                  ELSE st.thinking_content
        in2 == IF hasClose THEN FALSE ELSE in1
        content2 == IF hasClose THEN rest_part ELSE content1
    IN IF in2
       THEN [st EXCEPT !.full_response = full1,
                       !.thinking_content = think2 \o content2,
                       !.in_thinking = in2]
       ELSE [st EXCEPT !.full_response = full1 \o content2,
                       !.thinking_content = think2,
                       !.in_thinking = in2]

\* A response line: bad (json.loads raises JSONDecodeError) or a JSON object
\* with an optional "message" (its content), "done" and "eval_count".
BadLine == [json |-> FALSE]
JsonLine(hasMsg, content, done, hasEval, n) ==
    [json |-> TRUE, message |-> hasMsg, content |-> content, done |-> done,
     has_eval |-> hasEval, eval_count |-> n]

\* The completion test made before the message is handled, so that the break
\* comes first.
LineEffectDoneFirst(st, line) ==
    IF ~line.json THEN st
    ELSE IF line.done
    THEN [st EXCEPT !.total_tokens = IF line.has_eval THEN @ + line.eval_count ELSE @,
                    !.stop = TRUE]
    ELSE IF line.message THEN HandleContent(st, line.content) ELSE st

\* Lines 122-175: one iteration of `for line in response`. stop is the break.
LineEffect(st, line) ==
    IF ~line.json THEN st
    ELSE LET st1 == IF line.message THEN HandleContent(st, line.content) ELSE st
         IN IF line.done
            THEN [st1 EXCEPT !.total_tokens =
                                 IF line.has_eval THEN @ + line.eval_count ELSE @,
                             !.stop = TRUE]
            ELSE st1

ChatStart(tokens) ==
    [full_response |-> <<>>, thinking_content |-> <<>>, in_thinking |-> FALSE,
     total_tokens |-> tokens, stop |-> FALSE]

\* The whole loop of lines 121-175 over the lines from index i on.
RECURSIVE ReadFrom(_, _, _)
ReadFrom(st, lines, i) ==
    IF i > Len(lines) \/ st.stop THEN st
    ELSE ReadFrom(LineEffect(st, lines[i]), lines, i + 1)

\* chat is entered with the response lines still unread: lines 114-116
ChatIdle(lines) ==
    /\ stream = lines
    /\ pos = 1
    /\ full_response = <<>>
    /\ thinking_content = <<>>
    /\ in_thinking = FALSE
    /\ total_tokens = 0
    /\ returned = NotYet
    /\ cpc = "reading"

ChatState ==
    [full_response |-> full_response, thinking_content |-> thinking_content,
     in_thinking |-> in_thinking, total_tokens |-> total_tokens, stop |-> FALSE]

\* One iteration of the for loop.
ChatLine ==
    /\ cpc = "reading"
    /\ pos <= Len(stream)
    /\ LET st == LineEffect(ChatState, stream[pos])
       IN /\ full_response' = st.full_response
          /\ thinking_content' = st.thinking_content
          /\ in_thinking' = st.in_thinking
          /\ total_tokens' = st.total_tokens
          /\ pos' = pos + 1
          /\ cpc' = IF st.stop THEN "finished" ELSE "reading"
    /\ UNCHANGED <<stream, returned, shellVars>>

\* The loop is over (break or end of response): lines 176, 182-183.
ChatReturn ==
    /\ \/ cpc = "finished"
       \/ cpc = "reading" /\ pos > Len(stream)
    /\ returned' = full_response
    /\ cpc' = "returned"
    /\ UNCHANGED <<stream, pos, full_response, thinking_content, in_thinking,
                   total_tokens, shellVars>>

\* URLError, TimeoutError or KeyboardInterrupt while reading: lines 185-195.
ChatFail ==
    /\ cpc = "reading"
    /\ returned' = None
    /\ cpc' = "failed"
    /\ UNCHANGED <<stream, pos, full_response, thinking_content, in_thinking,
                   total_tokens, shellVars>>

NextChat == ChatLine \/ ChatReturn \/ ChatFail

\* ------------------------------------------------------------------------
\* More Python str operations: lower, strip, rstrip, endswith, split(maxsplit=1)
\* ------------------------------------------------------------------------
Upper == <<"A", "B", "C", "D", "E", "F", "G", "H", "I", "J", "K", "L", "M", "N", "O", "P", "Q", "R", "S", "T", "U", "V", "W", "X", "Y", "Z">>
Lowers == <<"a", "b", "c", "d", "e", "f", "g", "h", "i", "j", "k", "l", "m", "n", "o", "p", "q", "r", "s", "t", "u", "v", "w", "x", "y", "z">>

\* str.lower() of one character
LowerChar(c) ==
    IF \E i \in 1..Len(Upper) : Upper[i] = c
    THEN Lowers[CHOOSE i \in 1..Len(Upper) : Upper[i] = c]
    ELSE c

Lower(s) == [i \in 1..Len(s) |-> LowerChar(s[i])]

IsSpace(c) == c \in {" ", "\n", "\t"}

RECURSIVE LStrip(_)
LStrip(s) == IF s # <<>> /\ IsSpace(Head(s)) THEN LStrip(Tail(s)) ELSE s

RECURSIVE RStrip(_)
RStrip(s) ==
    IF s # <<>> /\ IsSpace(s[Len(s)]) THEN RStrip(SubSeq(s, 1, Len(s) - 1)) ELSE s

Strip(s) == RStrip(LStrip(s))

\* s.rstrip('\\')
RECURSIVE RStripBackslash(_)
RStripBackslash(s) ==
    IF s # <<>> /\ s[Len(s)] = "\\"
    THEN RStripBackslash(SubSeq(s, 1, Len(s) - 1)) ELSE s

EndsWith(s, c) == s # <<>> /\ s[Len(s)] = c

\* Length of the first whitespace-free word of s (s has no leading whitespace).
RECURSIVE WordLen(_)
WordLen(s) == IF s = <<>> \/ IsSpace(Head(s)) THEN 0 ELSE 1 + WordLen(Tail(s))

\* s.split(maxsplit=1): the first word, and the rest after the whitespace
\* that follows it when anything is left.
SplitMax1(s) ==
    LET t == LStrip(s)
        n == WordLen(t)
        rest == LStrip(SubSeq(t, n + 1, Len(t)))
    IN IF t = <<>> THEN <<>>
       ELSE IF rest = <<>> THEN <<SubSeq(t, 1, n)>>
       ELSE <<SubSeq(t, 1, n), rest>>

\* ------------------------------------------------------------------------
\* The history directory: save_session and load_session
\* ------------------------------------------------------------------------
MAX_HISTORY_SESSIONS == 50

\* The characters re.sub(r'[^a-zA-Z0-9_-]', '', name) keeps.
SafeChars ==
    {"a", "b", "c", "d", "e", "f", "g", "h", "i", "j", "k", "l", "m", "n", "o", "p", "q", "r", "s", "t", "u", "v", "w", "x", "y", "z"}
    \cup {"A", "B", "C", "D", "E", "F", "G", "H", "I", "J", "K", "L", "M", "N", "O", "P", "Q", "R", "S", "T", "U", "V", "W", "X", "Y", "Z"}
    \cup {"0", "1", "2", "3", "4", "5", "6", "7", "8", "9"}
    \cup {"_", "-"}

IsSafeChar(c) == c \in SafeChars
Sanitize(name) == SelectSeq(name, IsSafeChar)

Digit(n) == <<"0", "1", "2", "3", "4", "5", "6", "7", "8", "9">>[n + 1]

\* datetime.now().strftime("%Y%m%d_%H%M%S"): digits and an underscore, one
\* value per second, here date digits, underscore, seconds digit.
Timestamp(t) == <<Digit((t \div 100) % 10), Digit((t \div 10) % 10), "_", Digit(t % 10)>>

DotJson == <<".", "j", "s", "o", "n">>

\* json.dump / json.load of a str: the characters JSON escapes
RECURSIVE JsonEscape(_)
JsonEscape(s) ==
    IF s = <<>> THEN <<>>
    ELSE (CASE Head(s) = "\"" -> <<"\\", "\"">>
            [] Head(s) = "\\" -> <<"\\", "\\">>
            [] Head(s) = "\n" -> <<"\\", "n">>
            [] OTHER -> <<Head(s)>>) \o JsonEscape(Tail(s))

RECURSIVE JsonUnescape(_)
JsonUnescape(s) ==
    IF s = <<>> THEN <<>>
    ELSE IF Head(s) = "\\" /\ Len(s) >= 2
    THEN <<(IF s[2] = "n" THEN "\n" ELSE s[2])>> \o JsonUnescape(SubSeq(s, 3, Len(s)))
    ELSE <<Head(s)>> \o JsonUnescape(Tail(s))

\* ChatSession(model, system_prompt): lines 70-77. The command loop passes no
\* num_ctx and no temperature; total_tokens is followed in chat itself.
ChatSession(m, sys) ==
    [model |-> m,
     messages |-> IF sys # None /\ sys # <<>>
                  THEN <<[role |-> "system", content |-> sys]>> ELSE <<>>]

\* The JSON text save_session writes: lines 250-254
Dump(sess, t) ==
    [model |-> JsonEscape(sess.model),
     messages |-> [i \in 1..Len(sess.messages) |->
                     [role |-> sess.messages[i].role,
                      content |-> JsonEscape(sess.messages[i].content)]],
     saved_at |-> t]

\* The session load_session builds from a file's text: lines 277-281
Parse(text) ==
    [model |-> JsonUnescape(text.model),
     messages |-> [i \in 1..Len(text.messages) |->
                     [role |-> text.messages[i].role,
                      content |-> JsonUnescape(text.messages[i].content)]]]

\* sessions[:-MAX_HISTORY_SESSIONS] of the files sorted by modification time:
\* those with at least MAX_HISTORY_SESSIONS files modified after them
Oldest(d) ==
    LET times == {d[f].mtime : f \in DOMAIN d}
        old == {x \in times :
                  Cardinality({y \in times : y > x}) >= MAX_HISTORY_SESSIONS}
    IN {f \in DOMAIN d : d[f].mtime \in old}

\* A sort that puts the most recent first, so that the slice removes them.
PruneNewest(d) ==
    LET times == {d[f].mtime : f \in DOMAIN d}
        new == {x \in times :
                  Cardinality({y \in times : y < x}) >= MAX_HISTORY_SESSIONS}
    IN IF Cardinality(DOMAIN d) > MAX_HISTORY_SESSIONS
       THEN [f \in {f \in DOMAIN d : d[f].mtime \notin new} |-> d[f]]
       ELSE d

\* Cleanup of old sessions: lines 259-262
Prune(d) ==
    IF Cardinality(DOMAIN d) > MAX_HISTORY_SESSIONS
    THEN [f \in DOMAIN d \ Oldest(d) |-> d[f]]
    ELSE d

\* The file name save_session writes to: lines 244-247
SaveName(name, t) ==
    (IF name # None /\ name # <<>> THEN Sanitize(name) ELSE Timestamp(t)) \o DotJson

\* save_session(session, name) at second t: the directory after it. w is the
\* modification time of the file written, later than that of every file
\* written before.
SaveSession(d, sess, name, t, w) ==
    LET filename == SaveName(name, t)
        written == [f \in DOMAIN d \cup {filename} |->
                      IF f = filename THEN [mtime |-> w, text |-> Dump(sess, t)]
                      ELSE d[f]]
    IN Prune(written)

\* fnmatch of a file name against a glob pattern with * and ? (the names
\* used here hold no [ and no *, which glob treats specially too)
RECURSIVE GlobMatch(_, _)
GlobMatch(pat, s) ==
    IF pat = <<>> THEN s = <<>>
    ELSE IF Head(pat) = "*"
    THEN \E k \in 0..Len(s) : GlobMatch(Tail(pat), SubSeq(s, k + 1, Len(s)))
    ELSE IF s = <<>> THEN FALSE
    ELSE IF Head(pat) = "?" \/ Head(pat) = Head(s)
    THEN GlobMatch(Tail(pat), Tail(s))
    ELSE FALSE

\* HISTORY_DIR.glob(f"*{name}*.json")
Matches(d, name) ==
    {f \in DOMAIN d : GlobMatch(<<"*">> \o name \o <<"*">> \o DotJson, f)}

\* The file load_session(name) opens, or None: lines 267-275
LoadPath(d, name) ==
    IF (name \o DotJson) \in DOMAIN d THEN name \o DotJson
    ELSE LET matches == Matches(d, name)
         IN IF matches # {}
            THEN CHOOSE f \in matches : \A g \in matches : d[g].mtime <= d[f].mtime
            ELSE None

\* load_session(name): whether it found a file, and the session it returns
\* (an empty one stands for None)
Loaded(d, name) ==
    LET path == LoadPath(d, name)
    IN IF path = None
       THEN [found |-> FALSE, session |-> [model |-> <<>>, messages |-> <<>>]]
       ELSE [found |-> TRUE, session |-> Parse(d[path].text)]

\* ------------------------------------------------------------------------
\* interactive_mode
\* ------------------------------------------------------------------------
\* The lines the user may type at the prompt, and at the continuation prompt.
Lines ==
    {<<"Q">>,
     <<"e", "x", "i", "t">>,
     <<"c", "l", "e", "a", "r">>,
     <<"s", "a", "v", "e">>,
     <<"S", "a", "v", "e", " ", "a">>,
     <<"s", "a", "v", "e", " ", "a", ".", "b">>,
     <<"s", "a", "v", "e", "s">>,
     <<"l", "o", "a", "d", " ", "a">>,
     <<"l", "o", "a", "d", " ", "a", ".", "b">>,
     <<"l", "o", "a", "d", " ", "?">>,
     <<"l", "o", "a", "d", " ", "z", "z">>,
     <<"l", "o", "a", "d", " ", "4">>,
     <<"l", "o", "a", "d">>,
     <<"m", "o", "d", "e", "l", " ", "m", "2">>,
     <<"m", "o", "d", "e", "l", "s">>,
     <<"h", "i", "s", "t", "o", "r", "y">>,
     <<"h", "e", "l", "p">>,
     <<"h", "i">>,
     <<>>,
     <<"x", "\\">>}
ContLines == {<<"h", "i">>, <<"x", "\\">>}

\* The responses the server may stream to a chat of the command loop.
Replies ==
    {<<JsonLine(TRUE, OPEN \o <<"t">> \o CLOSE, FALSE, FALSE, 0),
       JsonLine(TRUE, <<"o", "k">>, TRUE, TRUE, 2)>>}

\* The branch of the if chain of lines 321-378 that handles user_input.
Branch(user_input) ==
    LET cmd == Strip(Lower(user_input))
    IN IF cmd \in {<<"e", "x", "i", "t">>, <<"q", "u", "i", "t">>, <<"q">>} THEN "exit"
       ELSE IF cmd = <<"c", "l", "e", "a", "r">> THEN "clear"
       ELSE IF StartsWith(cmd, <<"s", "a", "v", "e">>) THEN "save"
       ELSE IF StartsWith(cmd, <<"l", "o", "a", "d", " ">>) THEN "load"
       ELSE IF cmd = <<"m", "o", "d", "e", "l", "s">> THEN "models"
       ELSE IF StartsWith(cmd, <<"m", "o", "d", "e", "l", " ">>) THEN "model"
       ELSE IF cmd = <<"h", "i", "s", "t", "o", "r", "y">> THEN "history"
       ELSE IF cmd = <<"h", "e", "l", "p">> THEN "help"
       ELSE IF Strip(user_input) = <<>> THEN "blank"
       ELSE "message"

\* The argument of a command: cmd.split(maxsplit=1)[1], or None
Argument(user_input) ==
    LET parts == SplitMax1(Strip(Lower(user_input)))
    IN IF Len(parts) > 1 THEN parts[2] ELSE None

\* The branch and the argument of each line, computed once.
BranchOf == [line \in Lines |-> Branch(line)]
ArgumentOf == [line \in Lines |-> Argument(line)]

\* last remembers the input line handled last, the branch that took it, and
\* the session and prompt context it found.
Handled(op, user_input) ==
    [op |-> op, input |-> user_input, session |-> session, load_from |-> load_from]

\* interactive_mode(model, system_prompt, ..., load_from) up to the first
\* prompt, with an empty history directory: lines 306-311
InitShell ==
    /\ model = <<"m", "1">>
    /\ system_prompt \in {None, <<"b", "e">>}
    /\ load_from \in {None, <<"a">>}
    /\ dir = [f \in {} |-> 0]
    /\ session = IF load_from # None /\ Loaded(dir, load_from).found
                 THEN Loaded(dir, load_from).session
                 ELSE ChatSession(model, system_prompt)
    /\ now = 1
    /\ writes = 0
    /\ pending = <<>>
    /\ ipc = "prompt"
    /\ last = [op |-> "none"]
    /\ ChatIdle(<<>>)

\* exit, quit, q: lines 323-324
DoExit ==
    /\ ipc = "prompt"
    /\ \E line \in Lines :
         /\ BranchOf[line] = "exit"
         /\ last' = Handled("exit", line)
    /\ ipc' = "exited"
    /\ UNCHANGED <<session, model, system_prompt, load_from, dir, now, writes,
                   pending, chatVars>>

\* EOFError at either prompt: lines 390-392
DoEof ==
    /\ ipc \in {"prompt", "cont"}
    /\ ipc' = "exited"
    /\ last' = [op |-> "eof"]
    /\ UNCHANGED <<session, model, system_prompt, load_from, dir, now, writes,
                   pending, chatVars>>

\* KeyboardInterrupt at either prompt: lines 387-389. The loop goes back to
\* the first prompt and a multi-line input begun is dropped.
DoInterrupt ==
    /\ ipc \in {"prompt", "cont"}
    /\ ipc' = "prompt"
    /\ pending' = <<>>
    /\ last' = [op |-> "interrupt"]
    /\ UNCHANGED <<session, model, system_prompt, load_from, dir, now, writes,
                   chatVars>>

\* clear: lines 325-328
DoClear ==
    /\ ipc = "prompt"
    /\ \E line \in Lines :
         /\ BranchOf[line] = "clear"
         /\ last' = Handled("clear", line)
    /\ session' = ChatSession(model, system_prompt)
    /\ UNCHANGED <<model, system_prompt, load_from, dir, now, writes, pending, ipc,
                   chatVars>>

\* The seconds at which the next save may happen: time does not run back.
Seconds(bound) == {t \in now..(now + 1) : t <= bound}

\* save [name]: lines 329-334
DoSave ==
    /\ ipc = "prompt"
    /\ writes < MaxSaves
    /\ \E line \in Lines, t \in Seconds(1 + MaxNow) :
         /\ BranchOf[line] = "save"
         /\ LET name == ArgumentOf[line]
            IN /\ dir' = SaveSession(dir, session, name, t, writes + 1)
               /\ load_from' = IF name # None THEN name ELSE load_from
         /\ last' = Handled("save", line)
         /\ now' = t
    /\ writes' = writes + 1
    /\ UNCHANGED <<session, model, system_prompt, pending, ipc, chatVars>>

\* load <name>: lines 335-341
DoLoad ==
    /\ ipc = "prompt"
    /\ \E line \in Lines :
         /\ BranchOf[line] = "load"
         /\ LET name == ArgumentOf[line]
                loaded == Loaded(dir, name)
            IN /\ session' = IF loaded.found THEN loaded.session ELSE session
               /\ load_from' = IF loaded.found THEN name ELSE load_from
         /\ last' = Handled("load", line)
    /\ UNCHANGED <<model, system_prompt, dir, now, writes, pending, ipc, chatVars>>

\* model <name>: lines 345-350
DoModel ==
    /\ ipc = "prompt"
    /\ \E line \in Lines :
         /\ BranchOf[line] = "model"
         /\ LET new_model == ArgumentOf[line]
            IN /\ session' = [session EXCEPT !.model = new_model]
               /\ model' = new_model
         /\ last' = Handled("model", line)
    /\ UNCHANGED <<system_prompt, load_from, dir, now, writes, pending, ipc, chatVars>>

\* models, history, help, and an empty line: lines 342-344, 351-378. They
\* print and go back to the prompt.
DoShow ==
    /\ ipc = "prompt"
    /\ \E line \in Lines :
         /\ BranchOf[line] \in {"models", "history", "help", "blank"}
         /\ last' = Handled(BranchOf[line], line)
    /\ UNCHANGED <<session, model, system_prompt, load_from, dir, now, writes,
                   pending, ipc, chatVars>>

\* session.add_user_message(user_input); session.chat(...): lines 384-385,
\* with a response that is read to its end (ok) or an error that makes chat
\* return None.
Converse(sess, user_input, ok, reply) ==
    LET asked == [sess EXCEPT !.messages =
                        Append(@, [role |-> "user", content |-> user_input])]
        answer == ReadFrom(ChatStart(0), reply, 1).full_response
    IN IF ok
       THEN [asked EXCEPT !.messages =
                        Append(@, [role |-> "assistant", content |-> answer])]
       ELSE asked

\* Lines 380-385 for a user_input that is no command: wait for a further
\* line while it ends with a backslash, else send it. first is the line that
\* began the input.
SendOrContinue(first, user_input) ==
    IF EndsWith(Strip(user_input), "\\")
    THEN /\ Len(user_input) <= MaxInput
         /\ pending' = user_input
         /\ ipc' = "cont"
         /\ last' = [op |-> "continue", input |-> first, session |-> session,
                     load_from |-> load_from]
         /\ UNCHANGED session
    ELSE /\ Len(session.messages) + 2 <= MaxMsgs
         /\ \E ok \in BOOLEAN, reply \in Replies :
               session' = Converse(session, user_input, ok, reply)
         /\ pending' = <<>>
         /\ ipc' = "prompt"
         /\ last' = [op |-> "message", input |-> first, session |-> session,
                     load_from |-> load_from]

\* Any other non-empty line: lines 377-385
DoMessage ==
    /\ ipc = "prompt"
    /\ \E line \in Lines :
         /\ BranchOf[line] = "message"
         /\ SendOrContinue(line, line)
    /\ UNCHANGED <<model, system_prompt, load_from, dir, now, writes, chatVars>>

\* The next line of a multi-line input: line 382
DoContinue ==
    /\ ipc = "cont"
    /\ \E line \in ContLines :
         SendOrContinue(last.input, RStripBackslash(pending) \o <<"\n">> \o line)
    /\ UNCHANGED <<model, system_prompt, load_from, dir, now, writes, chatVars>>

NextShell ==
    \/ DoExit
    \/ DoEof
    \/ DoInterrupt
    \/ DoClear
    \/ DoSave
    \/ DoLoad
    \/ DoModel
    \/ DoShow
    \/ DoMessage
    \/ DoContinue

SpecShell == InitShell /\ [][NextShell]_vars

\* ------------------------------------------------------------------------
\* save_session and load_session called on a history directory
\* ------------------------------------------------------------------------
\* Files of earlier runs: one per second, saved without a name.
PreloadedDir ==
    [f \in {Timestamp(i) \o DotJson : i \in 1..Preloaded} |->
        LET i == CHOOSE i \in 1..Preloaded : Timestamp(i) \o DotJson = f
        IN [mtime |-> i,
            text |-> Dump([model |-> <<"m", "0">>,
                           messages |-> <<[role |-> "user", content |-> <<"h", "i">>]>>],
                          i)]]

\* The sessions and the names the two functions are called with.
Sessions ==
    {ChatSession(<<"m", "1">>, None),
     [model |-> <<"m", "2">>,
      messages |-> <<[role |-> "system", content |-> <<"b", "e">>],
                     [role |-> "user", content |-> <<"\"", "x", "\\", "\n", "y">>],
                     [role |-> "assistant", content |-> <<"o", "k">>]>>]}
SaveNames == {None, <<"a">>, <<"a", ".", "b">>}
LoadNames == {<<"a">>, <<"a", ".", "b">>, <<"4">>}

InitStore ==
    /\ dir \in {[f \in {} |-> 0], PreloadedDir}
    /\ now = Preloaded + 1
    /\ writes = Preloaded
    /\ last = [op |-> "none"]
    /\ session = [model |-> <<>>, messages |-> <<>>]
    /\ model = <<>>
    /\ system_prompt = None
    /\ load_from = None
    /\ pending = <<>>
    /\ ipc = "exited"
    /\ ChatIdle(<<>>)

\* save_session(sess, name): lines 240-262. last keeps the call, the file it
\* wrote and the listing the cleanup sorted.
SaveCall ==
    /\ writes < Preloaded + MaxWrites
    /\ \E sess \in Sessions, name \in SaveNames, t \in Seconds(Preloaded + 1 + MaxNow) :
         LET filename == SaveName(name, t)
             written == [f \in DOMAIN dir \cup {filename} |->
                           IF f = filename THEN writes + 1 ELSE dir[f].mtime]
         IN /\ dir' = SaveSession(dir, sess, name, t, writes + 1)
            /\ now' = t
            /\ last' = [op |-> "save", name |-> name, session |-> sess,
                        filename |-> filename, sessions |-> written]
    /\ writes' = writes + 1
    /\ UNCHANGED <<session, model, system_prompt, load_from, pending, ipc, chatVars>>

\* load_session(name): lines 265-292. last keeps the call, what it returned,
\* and the save_session call that came right before it, if one did.
LoadCall ==
    /\ \E name \in LoadNames :
         last' = [op |-> "load", name |-> name,
                  found |-> Loaded(dir, name).found,
                  result |-> Loaded(dir, name).session,
                  after_save |-> last.op = "save",
                  saved_name |-> IF last.op = "save" THEN last.name ELSE None,
                  saved |-> IF last.op = "save" THEN last.session
                            ELSE [model |-> <<>>, messages |-> <<>>]]
    /\ UNCHANGED <<dir, now, writes, session, model, system_prompt, load_from,
                   pending, ipc, chatVars>>

NextStore == SaveCall \/ LoadCall

SpecStore == InitStore /\ [][NextStore]_vars

\* ------------------------------------------------------------------------
\* Generated responses
\* ------------------------------------------------------------------------
TokenSet == {OPEN, CLOSE, <<"a">>, <<"b">>}
TokenSeqs == UNION {[1..n -> TokenSet] : n \in 0..MaxTokens}

SortedSeq(S) ==
    CHOOSE f \in [1..Cardinality(S) -> S] :
        \A i, j \in 1..Cardinality(S) : i < j => f[i] < f[j]

\* The output s cut at the offsets C into consecutive fragments.
Fragments(s, C) ==
    LET pts == SortedSeq(C \cup {0, Len(s)})
    IN [k \in 1..(Len(pts) - 1) |-> SubSeq(s, pts[k] + 1, pts[k + 1])]

\* The sets of at most k cut offsets inside an output of n characters.
RECURSIVE CutSetsUpTo(_, _)
CutSetsUpTo(n, k) ==
    IF k = 0 THEN {{}}
    ELSE CutSetsUpTo(n, k - 1)
         \cup {C \cup {c} : C \in CutSetsUpTo(n, k - 1), c \in 1..(n - 1)}

CutSets(n) == CutSetsUpTo(n, MaxCuts)

\* One message line per fragment; the last one is the completion object.
FragmentLines(frags) ==
    [k \in 1..Len(frags) |->
        JsonLine(TRUE, frags[k], k = Len(frags), k = Len(frags), 1)]

ContentSet == {<<"a">>, OPEN \o <<"b">>, <<"c">> \o CLOSE}
LineSet ==
    {BadLine}
    \cup {JsonLine(TRUE, c, d, e, 2) : c \in ContentSet, d \in BOOLEAN, e \in BOOLEAN}
    \cup {JsonLine(FALSE, <<>>, d, e, 2) : d \in BOOLEAN, e \in BOOLEAN}
LineSeqs == UNION {[1..n -> LineSet] : n \in 0..MaxLines}

ShellIdle ==
    /\ session = [model |-> <<>>, messages |-> <<>>]
    /\ model = <<>>
    /\ system_prompt = None
    /\ load_from = None
    /\ dir = <<>>
    /\ now = 0
    /\ writes = 0
    /\ pending = <<>>
    /\ ipc = "exited"
    /\ last = [op |-> "none"]

\* chat on an output cut into fragments in every way with at most MaxCuts cuts
InitChunks ==
    /\ \E toks \in TokenSeqs :
         \E C \in CutSets(Len(Concat(toks))) :
            ChatIdle(FragmentLines(Fragments(Concat(toks), C)))
    /\ ShellIdle

\* chat on any short sequence of response lines
InitStream ==
    /\ \E lines \in LineSeqs : ChatIdle(lines)
    /\ ShellIdle

SpecChunks == InitChunks /\ [][NextChat]_vars
SpecStream == InitStream /\ [][NextChat]_vars

\* ------------------------------------------------------------------------
\* Reference reading of an output: its text outside and inside thinking
\* blocks, and whether its tags are properly paired.
\* ------------------------------------------------------------------------
RECURSIVE Blocks(_, _, _)
Blocks(s, inside, acc) ==
    IF s = <<>> THEN [acc EXCEPT !.paired = @ /\ ~inside]
    ELSE IF StartsWith(s, OPEN)
    THEN Blocks(SubSeq(s, Len(OPEN) + 1, Len(s)), TRUE,
                [acc EXCEPT !.paired = @ /\ ~inside])
    ELSE IF StartsWith(s, CLOSE)
    THEN Blocks(SubSeq(s, Len(CLOSE) + 1, Len(s)), FALSE,
                [acc EXCEPT !.paired = @ /\ inside])
    ELSE IF inside
    THEN Blocks(Tail(s), inside, [acc EXCEPT !.thinking = Append(@, Head(s))])
    ELSE Blocks(Tail(s), inside, [acc EXCEPT !.answer = Append(@, Head(s))])

Reading(s) == Blocks(s, FALSE, [answer |-> <<>>, thinking |-> <<>>, paired |-> TRUE])

\* The whole output of a stream: the contents of its message lines, in order.
Whole(lines) ==
    Concat([k \in 1..Len(lines) |->
               IF lines[k].json /\ lines[k].message THEN lines[k].content ELSE <<>>])

\* Offsets of the output at which one line ends and the next begins.
CutOffsets(lines) ==
    {Len(Whole(SubSeq(lines, 1, k))) : k \in 1..(Len(lines) - 1)}

\* No fragment boundary falls strictly inside a tag of the output.
NoTagSplit(lines) ==
    LET w == Whole(lines)
    IN \A tag \in {OPEN, CLOSE} :
         \A i \in 1..(Len(w) - Len(tag) + 1) :
            SubSeq(w, i, i + Len(tag) - 1) = tag
               => \A c \in CutOffsets(lines) : ~(i <= c /\ c < i + Len(tag) - 1)

Occurrences(s, pat) == Len(Split(s, pat)) - 1

\* chat on the whole output arriving as one fragment
OneFragment(lines) ==
    ReadFrom(ChatStart(0), FragmentLines(<<Whole(lines)>>), 1)

\* C1 (as claimed): the answer and the thinking text chat returns are those of
\* the same output arriving as a single fragment, wherever the output is cut
\* into fragments. Stated for outputs that hold one properly paired thinking
\* block, where the single fragment is read correctly.
C1_ChunkIndependent ==
    (/\ cpc = "returned"
     /\ Reading(Whole(stream)).paired
     /\ Occurrences(Whole(stream), OPEN) <= 1)
    => /\ full_response = OneFragment(stream).full_response
       /\ thinking_content = OneFragment(stream).thinking_content

\* C2 (as claimed): when the tags are properly paired and no tag is split
\* between fragments, the answer is all the text outside thinking blocks and
\* the thinking text is all the text inside them, for any number of blocks.
C2_Reassembled ==
    (/\ cpc = "returned"
     /\ Reading(Whole(stream)).paired
     /\ NoTagSplit(stream))
    => /\ full_response = Reading(Whole(stream)).answer
       /\ thinking_content = Reading(Whole(stream)).thinking

\* Index of the first completion object, or the length of the stream.
FirstDone(lines) ==
    IF \E k \in 1..Len(lines) : lines[k].json /\ lines[k].done
    THEN CHOOSE k \in 1..Len(lines) :
            /\ lines[k].json /\ lines[k].done
            /\ \A j \in 1..(k - 1) : ~(lines[j].json /\ lines[j].done)
    ELSE Len(lines)

RECURSIVE Absorb(_, _)
Absorb(st, contents) ==
    IF contents = <<>> THEN st
    ELSE Absorb(HandleContent(st, Head(contents)), Tail(contents))

RECURSIVE MessageContents(_)
MessageContents(lines) ==
    IF lines = <<>> THEN <<>>
    ELSE (IF Head(lines).json /\ Head(lines).message
          THEN <<Head(lines).content>> ELSE <<>>) \o MessageContents(Tail(lines))

\* C3: a streaming chat reads up to and including the first completion
\* object and stops: that object's content is part of the result, and nothing
\* after it changes the answer, the thinking text or total_tokens.
C3_StopsAtDone ==
    /\ pos <= FirstDone(stream) + 1
    /\ cpc = "returned" =>
         LET k == FirstDone(stream)
             upto == SubSeq(stream, 1, k)
             want == Absorb(ChatStart(0), MessageContents(upto))
             final == IF k >= 1 THEN stream[k] ELSE BadLine
         IN /\ pos = k + 1
            /\ full_response = want.full_response
            /\ thinking_content = want.thinking_content
            /\ returned = full_response
            /\ total_tokens = IF final.json /\ final.done /\ final.has_eval
                              THEN final.eval_count ELSE 0

\* A completion object that carries content, followed by a further object
\* with content and a token count of its own.
C3_Witness ==
    /\ cpc = "returned"
    /\ LET k == FirstDone(stream)
       IN /\ k < Len(stream)
          /\ stream[k].json /\ stream[k].done /\ stream[k].message
          /\ stream[k].has_eval
          /\ stream[k + 1].json /\ stream[k + 1].message
          /\ stream[k + 1].done /\ stream[k + 1].has_eval

\* ------------------------------------------------------------------------
\* The session store and the command loop: claims
\* ------------------------------------------------------------------------
\* C4 (as claimed): save_session(session, name) followed by
\* load_session(name) returns a session, whose model and messages are those
\* of the session saved.
C4_RoundTrip ==
    (last.op = "load" /\ last.after_save /\ last.saved_name = last.name)
    => /\ last.found
       /\ last.result.model = last.saved.model
       /\ last.result.messages = last.saved.messages

\* C5: after every save_session call the directory holds at most
\* MAX_HISTORY_SESSIONS files, the files removed are exactly the least
\* recently modified ones beyond that limit, the others are untouched, and the
\* file the call wrote is still there.
C5_Retention ==
    last.op = "save" =>
        LET listed == last.sessions
            removed == DOMAIN listed \ DOMAIN dir
            excess == Cardinality(DOMAIN listed) - MAX_HISTORY_SESSIONS
        IN /\ Cardinality(DOMAIN dir) <= MAX_HISTORY_SESSIONS
           /\ DOMAIN dir \subseteq DOMAIN listed
           /\ Cardinality(removed) = IF excess > 0 THEN excess ELSE 0
           /\ \A r \in removed : \A k \in DOMAIN dir : listed[r] < listed[k]
           /\ \A k \in DOMAIN dir : dir[k].mtime = listed[k]
           /\ last.filename \in DOMAIN dir
           /\ Parse(dir[last.filename].text) = last.session

\* A save that made the cleanup remove a file.
C5_Witness ==
    /\ last.op = "save"
    /\ DOMAIN last.sessions \ DOMAIN dir # {}
    /\ Cardinality(DOMAIN dir) = MAX_HISTORY_SESSIONS

\* The commands of the help text (lines 359-368), read without regard to
\* case and to blanks around the line.
Documented(user_input) ==
    LET cmd == Strip(Lower(user_input))
        parts == SplitMax1(cmd)
    IN \/ cmd \in {<<"e", "x", "i", "t">>, <<"q", "u", "i", "t">>, <<"q">>, <<"c", "l", "e", "a", "r">>, <<"h", "i", "s", "t", "o", "r", "y">>, <<"m", "o", "d", "e", "l", "s">>, <<"h", "e", "l", "p">>}
       \/ Len(parts) >= 1 /\ parts[1] = <<"s", "a", "v", "e">>
       \/ Len(parts) = 2 /\ parts[1] \in {<<"l", "o", "a", "d">>, <<"m", "o", "d", "e", "l">>}

\* C6 (as claimed): a line is handled as a command only when it is one of
\* the documented commands.
C6_OnlyDocumentedCommands ==
    last.op \in {"exit", "clear", "save", "load", "models", "model", "history", "help"}
    => Documented(last.input)

\* C7 (as claimed): after clear the messages are the system prompt alone (or
\* none), and the session's model is the model it had before clear. Stated
\* for a prompt context that is the exact name of a saved session, or none.
C7_ClearKeepsModel ==
    (/\ last.op = "clear"
     /\ (load_from = None \/ (load_from \o DotJson) \in DOMAIN dir))
    => /\ session.messages = ChatSession(model, system_prompt).messages
       /\ session.model = last.session.model

\* The name of a session file without its .json
Stem(f) == SubSeq(f, 1, Len(f) - Len(DotJson))

\* C8 (as claimed): load <name> makes the file named exactly <name> the
\* current session; failing that, the most recently modified file whose name
\* contains <name>; and with no such file it leaves the session and the
\* prompt context as they were.
C8_LoadByName ==
    last.op = "load" =>
        LET name == Argument(last.input)
            containing == {f \in DOMAIN dir : Contains(Stem(f), name)}
        IN IF (name \o DotJson) \in DOMAIN dir
           THEN /\ session = Parse(dir[name \o DotJson].text)
                /\ load_from = name
           ELSE IF containing # {}
           THEN /\ \E f \in containing :
                     /\ \A g \in containing : dir[g].mtime <= dir[f].mtime
                     /\ session = Parse(dir[f].text)
                /\ load_from = name
           ELSE /\ session = last.session
                /\ load_from = last.load_from

====
